---- MODULE Spec2Model ----
(***************************************************************************)
(* html2md-mcp: the tool endpoint (server.py call_tool), the conversion    *)
(* pipeline (converter.py html_to_markdown), the process-wide TTL cache    *)
(* (cache.py SimpleCache, get_cache) and the browser fetcher (browser.py   *)
(* fetch_html_playwright), as one state machine.                           *)
(*                                                                         *)
(* Every worker thread has a position in the pipeline (pc), the frame of   *)
(* the html_to_markdown call it runs (frame), the frame of the cache       *)
(* operation it is inside (cop) and the frame of the browser fetch it is   *)
(* inside (bro).  A Python thread can be preempted between two bytecodes,  *)
(* so every read and every write of shared state (the module global        *)
(* _global_cache, a SimpleCache's dict) is a step of its own.              *)
(*                                                                         *)
(* Python's None is the empty tuple <<>> where a value is optional         *)
(* (a present value x is <<x>>), the string "None" for a string argument,  *)
(* and 0 for an object reference.                                          *)
(***************************************************************************)
EXTENDS Integers, Sequences, FiniteSets, TLC

VARIABLES
    pc,            \* pc[w]: where worker w stands
    frame,         \* frame[w]: the html_to_markdown call of worker w
    cop,           \* cop[w]: the cache operation worker w is inside
    bro,           \* bro[w]: the fetch_html_playwright call of worker w
    resp,          \* resp[w]: what call_tool handed back to its caller
    heap,          \* the SimpleCache objects constructed so far
    global_cache,  \* cache.py _global_cache: 0 (None) or an index of heap
    now,           \* time.time(), in whole ticks
    lastSet,       \* history: per key, the last set() since the last clear()
    call           \* a call of one function by itself: arguments and outcome

vars == <<pc, frame, cop, bro, resp, heap, global_cache, now, lastSet, call>>

-----------------------------------------------------------------------------
(* Bounds *)

\* The clock stops at MaxTime.
MaxTime == 2

\* Worker threads of the executor.
NumWorkers == 2

Workers == 1..NumWorkers

\* The thread that issues the requests of a sequential run.
MainThread == {1}

\* The chunks of a response body are at most MaxChunks.
MaxChunks == 3

\* A Markdown document has at most MaxLines lines.
MaxLines == 4

\* An HTML element has at most MaxNodes children.
MaxNodes == 4

\* max_headings is at most MaxHeadings.
MaxHeadings == 3

\* max_size is at most MaxSize bytes.
MaxSize == 4

\* cache_ttl values requests use, in ticks.
Ttls == {1, 2}

-----------------------------------------------------------------------------
(* The web the fetcher sees: what each URL delivers. *)

GoodSmall == "http://a/"
GoodBig   == "http://b/"
Unreachable == "http://x/"
Contentless == "http://e/"
NoHost    == "nohost"
\* A URL with a scheme and no host, which a browser loads without a server.
Hostless  == "data:text/html,p"

\* urllib.parse.urlparse, on the URLs of the model.
UrlParse(url) ==
    CASE url = GoodSmall   -> [scheme |-> "http", netloc |-> "a"]
      [] url = GoodBig     -> [scheme |-> "http", netloc |-> "b"]
      [] url = Unreachable -> [scheme |-> "http", netloc |-> "x"]
      [] url = Contentless -> [scheme |-> "http", netloc |-> "e"]
      [] url = Hostless    -> [scheme |-> "data", netloc |-> ""]
      [] OTHER             -> [scheme |-> "", netloc |-> ""]

\* What the site behind a URL delivers: whether it answers, the sizes of the
\* raw and of the cleaned HTML, and the Markdown trafilatura extracts from it
\* (its length in characters, its headings, its anchors).
Site(url) ==
    CASE url = GoodSmall ->
           [answers |-> TRUE, html_len |-> 40, cleaned_len |-> 30,
            md |-> "md_a", md_len |-> 7,
            headings |-> {"Title", "Intro"}, anchors |-> {"sec1"}]
      [] url = GoodBig ->
           [answers |-> TRUE, html_len |-> 400, cleaned_len |-> 300,
            md |-> "md_b", md_len |-> 120,
            headings |-> {"Title", "Intro", "Usage"}, anchors |-> {"sec1"}]
      [] url = Contentless ->
           [answers |-> TRUE, html_len |-> 10, cleaned_len |-> 0,
            md |-> "", md_len |-> 0, headings |-> {}, anchors |-> {}]
      [] url = Hostless ->
           [answers |-> TRUE, html_len |-> 20, cleaned_len |-> 15,
            md |-> "md_d", md_len |-> 5, headings |-> {}, anchors |-> {}]
      [] OTHER ->
           [answers |-> FALSE, html_len |-> 0, cleaned_len |-> 0,
            md |-> "", md_len |-> 0, headings |-> {}, anchors |-> {}]

-----------------------------------------------------------------------------
(* Python values *)

\* bool(x) of a string argument: None and "" are falsy.
Truthy(s) == s \notin {"None", ""}

\* str(b) of a bool, as an f-string formats it.
PyStr(b) == IF b THEN "True" ELSE "False"

\* The class hierarchy of the exceptions: the classes exc is an instance of.
Bases(exc) ==
    CASE exc = "FetchError" -> {"FetchError", "ConversionError", "Exception"}
      [] exc = "ParseError" -> {"ParseError", "ConversionError", "Exception"}
      [] exc = "ConversionError" -> {"ConversionError", "Exception"}
      [] OTHER -> {exc, "Exception"}

IsInstance(exc, cls) == cls \in Bases(exc)

-----------------------------------------------------------------------------
(* SimpleCache: the dict, in insertion order, as a sequence of entries *)

Contains(store, key) == \E i \in DOMAIN store : store[i].key = key

IndexOf(store, key) == CHOOSE i \in DOMAIN store : store[i].key = key

Entry(store, key) == store[IndexOf(store, key)]

\* d[key] = (ts, value): an existing key keeps its place, a new one goes last.
Put(store, key, ts, value) ==
    IF Contains(store, key)
    THEN [store EXCEPT ![IndexOf(store, key)] =
              [key |-> key, ts |-> ts, value |-> value]]
    ELSE Append(store, [key |-> key, ts |-> ts, value |-> value])

\* del d[key], the key being present.
Remove(store, key) == SelectSeq(store, LAMBDA e : e.key # key)

\* SimpleCache.__init__
NewCache(ttl) == [ttl |-> ttl, cache |-> <<>>]

\* No cache operation in progress.
NoCop ==
    [op |-> "none", pc |-> "none", self |-> 0, key |-> <<>>, value |-> <<>>,
     ttl |-> 0, ts |-> 0, read |-> <<>>, used |-> 0, seen |-> {},
     expired |-> <<>>, removed |-> 0, ret |-> <<>>, retn |-> 0, exc |-> ""]

\* The frame of a cache operation that was just called.
CopCall(op, self, key, value, ttl) ==
    [NoCop EXCEPT !.op = op, !.pc = "start", !.self = self, !.key = key,
                  !.value = value, !.ttl = ttl]

CopDone(w) == cop[w].op # "none" /\ cop[w].pc = "done"


\* The worker's cache operation ends: it returns or raises.
CopEnd(w, ret, retn, exc) ==
    [cop EXCEPT ![w].pc = "done", ![w].ret = ret, ![w].retn = retn,
                ![w].exc = exc]

CopAt(w, op, at) == cop[w].op = op /\ cop[w].pc = at

\* The dict of the SimpleCache the worker's operation runs on.
Store(w) == heap[cop[w].self].cache

-----------------------------------------------------------------------------
(* cache.py get_cache *)

\* if _global_cache is None:
GetCacheCheck(w) ==
    /\ CopAt(w, "get_cache", "start")
    /\ cop' = [cop EXCEPT ![w].pc =
                  IF global_cache = 0 THEN "create" ELSE "return"]
    /\ UNCHANGED <<pc, frame, bro, resp, heap, global_cache, now, lastSet,
                   call>>

\* _global_cache = SimpleCache(ttl=ttl)
GetCacheCreate(w) ==
    /\ CopAt(w, "get_cache", "create")
    /\ heap' = Append(heap, NewCache(cop[w].ttl))
    /\ global_cache' = Len(heap) + 1
    /\ cop' = [cop EXCEPT ![w].pc = "return"]
    /\ UNCHANGED <<pc, frame, bro, resp, now, lastSet, call>>

\* return _global_cache
GetCacheReturn(w) ==
    /\ CopAt(w, "get_cache", "return")
    /\ cop' = CopEnd(w, <<>>, global_cache, "")
    /\ UNCHANGED <<pc, frame, bro, resp, heap, global_cache, now, lastSet,
                   call>>

-----------------------------------------------------------------------------
(* cache.py SimpleCache.get *)

\* if key not in self._cache: return None
GetContains(w) ==
    /\ CopAt(w, "get", "start")
    /\ cop' = IF Contains(Store(w), cop[w].key)
              THEN [cop EXCEPT ![w].pc = "read"]
              ELSE CopEnd(w, <<>>, 0, "")
    /\ UNCHANGED <<pc, frame, bro, resp, heap, global_cache, now, lastSet,
                   call>>

\* timestamp, value = self._cache[key]
GetRead(w) ==
    /\ CopAt(w, "get", "read")
    /\ cop' = IF Contains(Store(w), cop[w].key)
              THEN [cop EXCEPT ![w].pc = "age",
                               ![w].read = <<Entry(Store(w), cop[w].key)>>]
              ELSE CopEnd(w, <<>>, 0, "KeyError")
    /\ UNCHANGED <<pc, frame, bro, resp, heap, global_cache, now, lastSet,
                   call>>

\* The test with the boundary on the wrong side.
Expired_AtTtl(age, ttl) == age >= ttl

\* The test of SimpleCache.get and cleanup: the entry is expired.
Expired(age, ttl) == age > ttl

\* age = time.time() - timestamp; if age > self._ttl: ...; return value
GetAge(w) ==
    /\ CopAt(w, "get", "age")
    /\ LET e == cop[w].read[1]
           age == now - e.ts
       IN cop' = IF Expired(age, heap[cop[w].self].ttl)
                 THEN [cop EXCEPT ![w].pc = "del", ![w].ts = now]
                 ELSE [CopEnd(w, <<e.value>>, 0, "") EXCEPT ![w].ts = now]
    /\ UNCHANGED <<pc, frame, bro, resp, heap, global_cache, now, lastSet,
                   call>>

\* del self._cache[key]; return None
GetDel(w) ==
    /\ CopAt(w, "get", "del")
    /\ IF Contains(Store(w), cop[w].key)
       THEN /\ heap' = [heap EXCEPT ![cop[w].self].cache =
                           Remove(@, cop[w].key)]
            /\ cop' = CopEnd(w, <<>>, 0, "")
       ELSE /\ cop' = CopEnd(w, <<>>, 0, "KeyError")
            /\ UNCHANGED heap
    /\ UNCHANGED <<pc, frame, bro, resp, global_cache, now, lastSet, call>>

-----------------------------------------------------------------------------
(* cache.py SimpleCache.set, clear, cleanup *)

\* self._cache[key] = (time.time(), value)
SetStore(w) ==
    /\ CopAt(w, "set", "start")
    /\ heap' = [heap EXCEPT ![cop[w].self].cache =
                   Put(@, cop[w].key, now, cop[w].value[1])]
    /\ cop' = CopEnd(w, <<>>, 0, "")
    /\ UNCHANGED <<pc, frame, bro, resp, global_cache, now, lastSet, call>>

\* count = len(self._cache); self._cache.clear()
ClearAll(w) ==
    /\ CopAt(w, "clear", "start")
    /\ heap' = [heap EXCEPT ![cop[w].self].cache = <<>>]
    /\ cop' = CopEnd(w, <<>>, Len(Store(w)), "")
    /\ UNCHANGED <<pc, frame, bro, resp, global_cache, now, lastSet, call>>

\* current_time = time.time(); the comprehension's iterator over
\* self._cache.items() is created: it remembers the size of the dict.
CleanupBegin(w) ==
    /\ CopAt(w, "cleanup", "start")
    /\ cop' = [cop EXCEPT ![w].pc = "scan", ![w].ts = now,
                          ![w].used = Len(Store(w))]
    /\ UNCHANGED <<pc, frame, bro, resp, heap, global_cache, now, lastSet,
                   call>>

\* The comprehension taking every key.
CleanupTakes_All(current_time, timestamp, ttl) == TRUE

\* if current_time - timestamp > self._ttl
CleanupTakes(current_time, timestamp, ttl) ==
    Expired(current_time - timestamp, ttl)

\* One step of the iterator of the comprehension: RuntimeError when the dict
\* changed size since the iterator was created, else the next entry not yet
\* visited (its key joins expired_keys when current_time - timestamp > ttl),
\* else the end of the iteration.
CleanupScan(w) ==
    /\ CopAt(w, "cleanup", "scan")
    /\ LET store == Store(w)
           unseen == {i \in DOMAIN store : store[i].key \notin cop[w].seen}
       IN cop' =
            IF Len(store) # cop[w].used
            THEN CopEnd(w, <<>>, 0, "RuntimeError")
            ELSE IF unseen = {}
            THEN [cop EXCEPT ![w].pc = "del"]
            ELSE LET i == CHOOSE j \in unseen : \A k \in unseen : j <= k
                     e == store[i]
                 IN [cop EXCEPT
                       ![w].seen = @ \cup {e.key},
                       ![w].expired =
                           IF CleanupTakes(cop[w].ts, e.ts,
                                           heap[cop[w].self].ttl)
                           THEN Append(@, e.key) ELSE @]
    /\ UNCHANGED <<pc, frame, bro, resp, heap, global_cache, now, lastSet,
                   call>>

\* for key in expired_keys: del self._cache[key]; then
\* return len(expired_keys)
CleanupDel(w) ==
    /\ CopAt(w, "cleanup", "del")
    /\ IF cop[w].expired = <<>>
       THEN /\ cop' = CopEnd(w, <<>>, cop[w].removed, "")
            /\ UNCHANGED heap
       ELSE LET key == Head(cop[w].expired)
            IN IF Contains(Store(w), key)
               THEN /\ heap' = [heap EXCEPT ![cop[w].self].cache =
                                   Remove(@, key)]
                    /\ cop' = [cop EXCEPT ![w].expired = Tail(@),
                                          ![w].removed = @ + 1]
               ELSE /\ cop' = CopEnd(w, <<>>, 0, "KeyError")
                    /\ UNCHANGED heap
    /\ UNCHANGED <<pc, frame, bro, resp, global_cache, now, lastSet, call>>


-----------------------------------------------------------------------------
(* Requests *)

\* The parameters html_to_markdown declares (converter.py).
H2mParams ==
    {"url", "include_images", "include_tables", "include_links", "timeout",
     "max_size", "use_cache", "cache_ttl", "fetch_method", "browser_type",
     "headless", "wait_for", "use_user_profile"}

\* The keyword arguments call_tool passes to html_to_markdown (server.py).
CallToolKwargs ==
    {"url", "include_images", "include_tables", "include_links", "timeout",
     "max_size", "use_cache", "cache_ttl", "fetch_method", "browser_type",
     "headless", "wait_for", "use_user_profile", "return_summary",
     "max_tokens", "section_id", "section_heading"}

\* The content toggles (include_images, include_tables, include_links)
\* requests use.
ToggleChoices == {<<TRUE, TRUE, TRUE>>, <<FALSE, TRUE, TRUE>>}

LongestTtl == CHOOSE t \in Ttls : \A u \in Ttls : u <= t

\* The arguments of a request; an option the request does not give is at the
\* default call_tool reads for it.
Args(url, tg, uc, ttl, fm, bt, up, rs, mt, sid, sh) ==
    [url |-> url, include_images |-> tg[1], include_tables |-> tg[2],
     include_links |-> tg[3], use_cache |-> uc, cache_ttl |-> ttl,
     fetch_method |-> fm, browser_type |-> bt, use_user_profile |-> up,
     return_summary |-> rs, max_tokens |-> mt, section_id |-> sid,
     section_heading |-> sh]

\* What clients send to the endpoint.
EndpointArgs ==
    {Args(url, <<TRUE, TRUE, TRUE>>, uc, LongestTtl, fm, "chromium", FALSE,
          rs, 10, sid, sh) :
        url \in {"None", "", GoodSmall, GoodBig}, uc \in BOOLEAN,
        fm \in {"fetch", "playwright"}, rs \in BOOLEAN,
        sid \in {"None", "", "sec1"}, sh \in {"None", "", "Intro"}}

\* What callers of the package's html_to_markdown pass: the options a request
\* does not use (the TTL without the cache, the browser with plain HTTP) are
\* at their defaults.
DirectArgs ==
    {Args(url, <<TRUE, TRUE, TRUE>>, TRUE, ttl, "fetch", "chromium", FALSE,
          FALSE, 10, "None", "None") :
        url \in {GoodSmall, GoodBig, Unreachable, Contentless, NoHost},
        ttl \in Ttls}
    \cup
    {Args(url, tg, FALSE, LongestTtl, "fetch", "chromium", FALSE, FALSE, 10,
          "None", "None") :
        url \in {GoodSmall, GoodBig, Unreachable, Contentless, NoHost,
                 Hostless},
        tg \in ToggleChoices}
    \cup
    {Args(url, <<TRUE, TRUE, TRUE>>, uc, LongestTtl, "playwright", bt, up,
          FALSE, 10, "None", "None") :
        url \in {GoodSmall, Unreachable, Contentless, NoHost},
        uc \in BOOLEAN, bt \in {"chromium", "firefox", "webkit"},
        up \in BOOLEAN}
    \cup
    {Args(Hostless, <<TRUE, TRUE, TRUE>>, FALSE, LongestTtl, "playwright", bt,
          FALSE, FALSE, 10, "None", "None") :
        bt \in {"chromium", "firefox", "webkit"}}

\* Cached requests for two pages, one of them with two settings of the
\* content toggles, by either fetch method and with either TTL.
ShareArgs ==
    {Args(r[1], r[2], TRUE, ttl, fm, "chromium", FALSE, FALSE, 10, "None",
          "None") :
        r \in {<<GoodSmall, <<TRUE, TRUE, TRUE>>>>,
               <<GoodSmall, <<FALSE, TRUE, TRUE>>>>,
               <<GoodBig, <<TRUE, TRUE, TRUE>>>>},
        ttl \in Ttls, fm \in {"fetch", "playwright"}}

\* What the concurrent workers are asked for: cached plain fetches.
ThreadArgs ==
    {Args(GoodSmall, <<TRUE, TRUE, TRUE>>, TRUE, ttl, "fetch", "chromium",
          FALSE, FALSE, 10, "None", "None") : ttl \in Ttls}

\* utils.py calculate_hash: SHA-256 maps the texts one to one; the digest of
\* a text is the text in a tuple.
CalculateHash(content) == <<content>>

\* calculate_hash(f"{url}|{include_images}|{include_tables}|{include_links}")
CacheKey(args) ==
    CalculateHash(args.url \o "|" \o PyStr(args.include_images) \o "|"
                    \o PyStr(args.include_tables) \o "|"
                    \o PyStr(args.include_links))

\* The result dict html_to_markdown builds.
Result(url) ==
    [url |-> url, markdown |-> Site(url).md,
     original_size |-> Site(url).html_len,
     cleaned_size |-> Site(url).cleaned_len,
     markdown_size |-> Site(url).md_len]

\* sections.py estimate_tokens, of a text of len characters.
EstimateTokens(len) == len \div 4

\* call_tool's defaults, with no url.
NoArgs ==
    Args("None", <<TRUE, TRUE, TRUE>>, FALSE, LongestTtl, "fetch", "chromium",
         FALSE, FALSE, 10, "None", "None")

NoFrame ==
    [entry |-> "none", name |-> "", args |-> NoArgs, kwargs |-> {},
     key |-> <<>>, cache |-> 0, html |-> <<>>, cleaned |-> <<>>,
     result |-> <<>>, exc |-> "", events |-> {}, hit |-> FALSE,
     hit_age |-> 0]

NoResp ==
    [kind |-> "none", text |-> "", items |-> 0, url |-> "", section |-> "",
     markdown |-> "", saved_to |-> "", toc_shown |-> 0, exc |-> ""]

NoBro ==
    [pc |-> "none", url |-> "", browser_type |-> "", use_user_profile |-> FALSE,
     persistent |-> FALSE, profile_dir |-> "unset", machine |-> <<>>,
     pw |-> "off",
     browser |-> "none", page |-> "none", pending |-> "", html |-> <<>>,
     exc |-> "", closed |-> <<>>]


-----------------------------------------------------------------------------
(* server.py call_tool *)

UrlRequired == "Error: 'url' parameter is required"
MutuallyExclusive ==
    "Error: 'section_id' and 'section_heading' are mutually exclusive. Provide only one."

\* Validate without the test of the two section selectors.
Validate_NoExclusion(args) ==
    IF ~Truthy(args.url) THEN UrlRequired ELSE ""

\* The validation of the arguments: the usage error, or "" for none.
Validate(args) ==
    IF ~Truthy(args.url) THEN UrlRequired
    ELSE IF Truthy(args.section_id) /\ Truthy(args.section_heading)
         THEN MutuallyExclusive
    ELSE ""

\* The except clauses without the last one, except Exception.
ExceptPrefix_NoCatchAll(exc) ==
    IF IsInstance(exc, "FetchError") THEN "Error fetching URL: "
    ELSE IF IsInstance(exc, "ParseError")
         THEN "Error parsing/converting content: "
    ELSE IF IsInstance(exc, "ConversionError") THEN "Conversion error: "
    ELSE ""

\* The except clauses of call_tool, in their order: the first clause whose
\* class exc is an instance of makes the text; "" when none catches it.
ExceptPrefix(exc) ==
    IF IsInstance(exc, "FetchError") THEN "Error fetching URL: "
    ELSE IF IsInstance(exc, "ParseError")
         THEN "Error parsing/converting content: "
    ELSE IF IsInstance(exc, "ConversionError") THEN "Conversion error: "
    ELSE IF IsInstance(exc, "Exception") THEN "Unexpected error: "
    ELSE ""

\* What call_tool does with an exception raised inside its try block.
Handle(exc) ==
    IF ExceptPrefix(exc) # ""
    THEN [NoResp EXCEPT !.kind = "error", !.text = ExceptPrefix(exc),
                        !.items = 1, !.exc = exc]
    ELSE [NoResp EXCEPT !.kind = "raised", !.exc = exc]

IsSummary(result) == "type" \in DOMAIN result /\ result.type = "summary"

\* The response call_tool formats from the dict html_to_markdown returned.
Format(result, args) ==
    IF IsSummary(result)
    THEN [NoResp EXCEPT
            !.kind = "summary",
            !.text = "# Document Too Large - Summary Returned",
            !.items = 1, !.url = args.url, !.saved_to = result.saved_to,
            !.toc_shown = IF Len(result.table_of_contents) > 20 THEN 20
                          ELSE Len(result.table_of_contents)]
    ELSE IF result.original_size = 0
    THEN Handle("ZeroDivisionError")
    ELSE [NoResp EXCEPT
            !.kind = "success", !.text = "# Conversion Successful",
            !.items = 1, !.url = args.url, !.markdown = result.markdown,
            !.section =
                IF Truthy(args.section_id) \/ Truthy(args.section_heading)
                THEN (IF Truthy(args.section_id) THEN args.section_id
                      ELSE args.section_heading)
                ELSE ""]

\* call_tool up to the await: the tool name, the arguments, their validation,
\* and the dispatch of html_to_markdown to the executor.
CallTool(w, name, args) ==
    /\ pc[w] = "idle"
    /\ LET fr == [NoFrame EXCEPT !.entry = "call_tool", !.name = name,
                                 !.args = args]
       IN IF name # "html_to_markdown"
          THEN /\ resp' = [resp EXCEPT ![w] =
                             [NoResp EXCEPT !.kind = "raised",
                                            !.exc = "ValueError"]]
               /\ frame' = [frame EXCEPT ![w] = fr]
               /\ pc' = [pc EXCEPT ![w] = "ct_done"]
          ELSE IF Validate(args) # ""
          THEN /\ resp' = [resp EXCEPT ![w] =
                             [NoResp EXCEPT !.kind = "usage_error",
                                            !.text = Validate(args),
                                            !.items = 1]]
               /\ frame' = [frame EXCEPT ![w] = fr]
               /\ pc' = [pc EXCEPT ![w] = "ct_done"]
          ELSE /\ frame' = [frame EXCEPT ![w] =
                              [fr EXCEPT !.kwargs = CallToolKwargs,
                                         !.events = {"dispatch"}]]
               /\ pc' = [pc EXCEPT ![w] = "h2m_enter"]
               /\ UNCHANGED resp
    /\ UNCHANGED <<cop, bro, heap, global_cache, now, lastSet, call>>

\* call_tool after the await: the result formatted, or the exception handled.
CallToolResume(w) ==
    /\ pc[w] = "h2m_exit"
    /\ frame[w].entry = "call_tool"
    /\ resp' = [resp EXCEPT ![w] =
                  IF frame[w].exc # "" THEN Handle(frame[w].exc)
                  ELSE Format(frame[w].result[1], frame[w].args)]
    /\ pc' = [pc EXCEPT ![w] = "ct_done"]
    /\ UNCHANGED <<frame, cop, bro, heap, global_cache, now, lastSet, call>>

\* A caller of the package calls html_to_markdown itself.
Direct(w, args) ==
    /\ pc[w] = "idle"
    /\ frame' = [frame EXCEPT ![w] =
                    [NoFrame EXCEPT !.entry = "direct", !.args = args,
                                    !.kwargs = H2mParams]]
    /\ pc' = [pc EXCEPT ![w] = "h2m_enter"]
    /\ UNCHANGED <<cop, bro, resp, heap, global_cache, now, lastSet, call>>


-----------------------------------------------------------------------------
(* converter.py html_to_markdown *)

\* converter.py validate_url
ValidateUrl(url) == UrlParse(url).scheme # "" /\ UrlParse(url).netloc # ""

\* The call leaves html_to_markdown with an exception.
Raise(w, exc) == [frame EXCEPT ![w].exc = exc]

\* The call is bound to the signature (a keyword the function does not
\* declare is a TypeError, raised before the body runs); then, with
\* use_cache, the key is computed and get_cache(ttl=cache_ttl) called.
H2mEnter(w) ==
    /\ pc[w] = "h2m_enter"
    /\ IF ~(frame[w].kwargs \subseteq H2mParams)
       THEN /\ frame' = Raise(w, "TypeError")
            /\ pc' = [pc EXCEPT ![w] = "h2m_exit"]
            /\ UNCHANGED cop
       ELSE IF frame[w].args.use_cache
       THEN /\ frame' = [frame EXCEPT ![w].key = CacheKey(frame[w].args),
                                      ![w].events = @ \cup {"get_cache"}]
            /\ cop' = [cop EXCEPT ![w] =
                          CopCall("get_cache", 0, <<>>, <<>>,
                                  frame[w].args.cache_ttl)]
            /\ pc' = [pc EXCEPT ![w] = "h2m_cache"]
       ELSE /\ pc' = [pc EXCEPT ![w] = "h2m_fetch"]
            /\ UNCHANGED <<frame, cop>>
    /\ UNCHANGED <<bro, resp, heap, global_cache, now, lastSet, call>>

\* cache = get_cache(...) returned; cached_result = cache.get(cache_key)
H2mLookup(w) ==
    /\ pc[w] = "h2m_cache"
    /\ CopDone(w)
    /\ frame' = [frame EXCEPT ![w].cache = cop[w].retn,
                              ![w].events = @ \cup {"cache_get"}]
    /\ cop' = [cop EXCEPT ![w] =
                  CopCall("get", cop[w].retn, frame[w].key, <<>>, 0)]
    /\ pc' = [pc EXCEPT ![w] = "h2m_get"]
    /\ UNCHANGED <<bro, resp, heap, global_cache, now, lastSet, call>>

\* cache.get returned or raised; if cached_result is not None: return it.
\* A get that read an entry and returned None has deleted it: the frame
\* notes the eviction.
H2mCached(w) ==
    /\ pc[w] = "h2m_get"
    /\ CopDone(w)
    /\ IF cop[w].exc # ""
       THEN /\ frame' = Raise(w, cop[w].exc)
            /\ pc' = [pc EXCEPT ![w] = "h2m_exit"]
       ELSE IF cop[w].ret # <<>>
       THEN /\ frame' = [frame EXCEPT
                            ![w].result = cop[w].ret, ![w].hit = TRUE,
                            ![w].hit_age = cop[w].ts - cop[w].read[1].ts]
            /\ pc' = [pc EXCEPT ![w] = "h2m_exit"]
       ELSE /\ pc' = [pc EXCEPT ![w] = "h2m_fetch"]
            /\ frame' = [frame EXCEPT
                            ![w].events = @ \cup (IF cop[w].read # <<>>
                                                  THEN {"evict"} ELSE {})]
    /\ cop' = [cop EXCEPT ![w] = NoCop]
    /\ UNCHANGED <<bro, resp, heap, global_cache, now, lastSet, call>>

\* converter.py fetch_html: the URL is validated, then requested; a site that
\* does not answer is a FetchError.
FetchHtml(url) ==
    IF ~ValidateUrl(url)
    THEN [exc |-> "FetchError", events |-> {}, html |-> <<>>]
    ELSE IF ~Site(url).answers
    THEN [exc |-> "FetchError", events |-> {"fetch"}, html |-> <<>>]
    ELSE [exc |-> "", events |-> {"fetch"}, html |-> <<url>>]

\* The frame of a fetch_html_playwright call that was just made.
BroCall(url, browser_type, use_user_profile) ==
    [NoBro EXCEPT !.pc = "start", !.url = url, !.browser_type = browser_type,
                  !.use_user_profile = use_user_profile]

BroDone(w) == bro[w].pc = "done"

\* Step 1: asyncio.run(fetch_html_playwright(...)) or fetch_html(...)
H2mFetch(w) ==
    /\ pc[w] = "h2m_fetch"
    /\ LET a == frame[w].args
           got == FetchHtml(a.url)
       IN IF a.fetch_method = "playwright"
          THEN /\ bro' = [bro EXCEPT ![w] =
                            BroCall(a.url, a.browser_type, a.use_user_profile)]
               /\ pc' = [pc EXCEPT ![w] = "h2m_pw"]
               /\ UNCHANGED frame
          ELSE /\ frame' = [frame EXCEPT
                              ![w].exc = got.exc, ![w].html = got.html,
                              ![w].events = @ \cup got.events]
               /\ pc' = [pc EXCEPT ![w] =
                            IF got.exc # "" THEN "h2m_exit" ELSE "h2m_clean"]
               /\ UNCHANGED bro
    /\ UNCHANGED <<cop, resp, heap, global_cache, now, lastSet, call>>

\* fetch_html_playwright returned the page's HTML, or raised FetchError.
H2mPwDone(w) ==
    /\ pc[w] = "h2m_pw"
    /\ BroDone(w)
    /\ frame' = [frame EXCEPT
                   ![w].exc = bro[w].exc, ![w].html = bro[w].html,
                   ![w].events = @ \cup
                       (IF bro[w].browser # "none" THEN {"launch"} ELSE {})]
    /\ pc' = [pc EXCEPT ![w] =
                 IF bro[w].exc # "" THEN "h2m_exit" ELSE "h2m_clean"]
    /\ UNCHANGED <<cop, bro, resp, heap, global_cache, now, lastSet, call>>

\* Step 2: cleaned_html = clean_html(html)
H2mClean(w) ==
    /\ pc[w] = "h2m_clean"
    /\ frame' = [frame EXCEPT ![w].cleaned = frame[w].html]
    /\ pc' = [pc EXCEPT ![w] = "h2m_convert"]
    /\ UNCHANGED <<cop, bro, resp, heap, global_cache, now, lastSet, call>>

\* convert_to_markdown that never fails.
ConvertFails_Never(url) == FALSE

\* convert_to_markdown: if not markdown: raise ParseError(...)
ConvertFails(url) == Site(url).md_len = 0

\* Step 3: convert_to_markdown (ParseError when nothing is extracted), the
\* result dict, and with use_cache the call of cache.set(cache_key, result).
H2mConvert(w) ==
    /\ pc[w] = "h2m_convert"
    /\ LET a == frame[w].args
           url == frame[w].cleaned[1]
       IN IF ConvertFails(url)
          THEN /\ frame' = Raise(w, "ParseError")
               /\ pc' = [pc EXCEPT ![w] = "h2m_exit"]
               /\ UNCHANGED cop
          ELSE IF a.use_cache
          THEN /\ frame' = [frame EXCEPT
                              ![w].result = <<Result(a.url)>>,
                              ![w].events = @ \cup {"cache_set"}]
               /\ cop' = [cop EXCEPT ![w] =
                             CopCall("set", frame[w].cache, frame[w].key,
                                     <<Result(a.url)>>, 0)]
               /\ pc' = [pc EXCEPT ![w] = "h2m_set"]
          ELSE /\ frame' = [frame EXCEPT ![w].result = <<Result(a.url)>>]
               /\ pc' = [pc EXCEPT ![w] = "h2m_exit"]
               /\ UNCHANGED cop
    /\ UNCHANGED <<bro, resp, heap, global_cache, now, lastSet, call>>

\* cache.set returned; return result
H2mStored(w) ==
    /\ pc[w] = "h2m_set"
    /\ CopDone(w)
    /\ cop' = [cop EXCEPT ![w] = NoCop]
    /\ pc' = [pc EXCEPT ![w] = "h2m_exit"]
    /\ UNCHANGED <<frame, bro, resp, heap, global_cache, now, lastSet, call>>


-----------------------------------------------------------------------------
(* browser.py fetch_html_playwright.  Each await is a step; a call into    *)
(* Playwright either succeeds or raises.                                   *)

BroAt(w, at) == bro[w].pc = at

\* What page.goto can load: an absolute URL (one with a scheme) whose
\* content is there; the browser asks for no host.
Navigable(url) == UrlParse(url).scheme # "" /\ Site(url).answers

\* An exception leaves the body of the async with block.
BroFail(w, exc) == [bro EXCEPT ![w].pending = exc, ![w].pc = "exit"]

\* async with async_playwright() as p:
BroStart(w) ==
    /\ BroAt(w, "start")
    /\ \E ok \in BOOLEAN :
         bro' = IF ok THEN [bro EXCEPT ![w].pw = "on", ![w].pc = "launch"]
                ELSE BroFail(w, "Error")
    /\ UNCHANGED <<pc, frame, cop, resp, heap, global_cache, now, lastSet,
                   call>>

\* platform.system() on the machines the package runs on, and one more.
Systems == {"Darwin", "Windows", "Linux", "FreeBSD"}

\* Path.home() / ... of get_chrome_user_data_dir for the system, or none.
ChromePath(system) ==
    IF system = "Darwin"
    THEN <<"~/Library/Application Support/Google/Chrome">>
    ELSE IF system = "Windows"
    THEN <<"~/AppData/Local/Google/Chrome/User Data">>
    ELSE IF system = "Linux"
    THEN <<"~/.config/google-chrome">>
    ELSE <<>>

\* get_chrome_user_data_dir: the path of the system when it exists, or None.
GetChromeUserDataDir(system, exists) ==
    LET path == ChromePath(system)
    IN IF path = <<>> THEN <<>>
       ELSE IF exists THEN path
       ELSE <<>>

\* A launch that takes the profile with any engine.
UsesProfile_AnyEngine(use_user_profile, browser_type) == use_user_profile

\* if use_user_profile and browser_type == "chromium":
UsesProfile(use_user_profile, browser_type) ==
    use_user_profile /\ browser_type = "chromium"

\* The launcher of the browser type; then, with use_user_profile on chromium,
\* get_chrome_user_data_dir() (None: FetchError) and
\* launch_persistent_context; otherwise launch.  For a call that asks for
\* the profile, machine notes whether the machine it runs on has the
\* profile directory of its system.
BroLaunch(w) ==
    /\ BroAt(w, "launch")
    /\ \E ok \in BOOLEAN, system \in Systems, exists \in BOOLEAN :
         LET user_data_dir == GetChromeUserDataDir(system, exists)
             here == [bro EXCEPT ![w].machine =
                        IF bro[w].use_user_profile
                        THEN <<ChromePath(system) # <<>> /\ exists>>
                        ELSE <<>>]
             fail(exc) == [here EXCEPT ![w].pending = exc, ![w].pc = "exit"]
         IN bro' =
           IF bro[w].browser_type \notin {"chromium", "firefox", "webkit"}
           THEN fail("FetchError")
           ELSE IF UsesProfile(bro[w].use_user_profile, bro[w].browser_type)
           THEN IF user_data_dir = <<>>
                THEN [fail("FetchError") EXCEPT ![w].profile_dir = "missing"]
                ELSE IF ok
                THEN [here EXCEPT ![w].profile_dir = user_data_dir[1],
                                  ![w].persistent = TRUE,
                                  ![w].browser = "open", ![w].pc = "page"]
                ELSE [fail("Error") EXCEPT
                        ![w].profile_dir = user_data_dir[1]]
           ELSE IF ok
                THEN [here EXCEPT ![w].browser = "open", ![w].pc = "context"]
                ELSE fail("Error")
    /\ UNCHANGED <<pc, frame, cop, resp, heap, global_cache, now, lastSet,
                   call>>

\* context = await browser.new_context()
BroNewContext(w) ==
    /\ BroAt(w, "context")
    /\ \E ok \in BOOLEAN :
         bro' = IF ok THEN [bro EXCEPT ![w].pc = "page"]
                ELSE BroFail(w, "Error")
    /\ UNCHANGED <<pc, frame, cop, resp, heap, global_cache, now, lastSet,
                   call>>

\* page = await browser.new_page()  /  await context.new_page()
BroNewPage(w) ==
    /\ BroAt(w, "page")
    /\ \E ok \in BOOLEAN :
         bro' = IF ok THEN [bro EXCEPT ![w].page = "open", ![w].pc = "goto"]
                ELSE BroFail(w, "Error")
    /\ UNCHANGED <<pc, frame, cop, resp, heap, global_cache, now, lastSet,
                   call>>

\* try: await page.goto(url, ...); an exception enters the finally block.
BroGoto(w) ==
    /\ BroAt(w, "goto")
    /\ \E ok \in BOOLEAN :
         bro' = IF ok /\ Navigable(bro[w].url)
                THEN [bro EXCEPT ![w].pc = "content"]
                ELSE [bro EXCEPT ![w].pending = "Error",
                                 ![w].pc = "page_close"]
    /\ UNCHANGED <<pc, frame, cop, resp, heap, global_cache, now, lastSet,
                   call>>

\* html = await page.content(); return html (through the finally block)
BroContent(w) ==
    /\ BroAt(w, "content")
    /\ \E ok \in BOOLEAN :
         bro' = IF ok
                THEN [bro EXCEPT ![w].html = <<bro[w].url>>,
                                 ![w].pc = "page_close"]
                ELSE [bro EXCEPT ![w].pending = "Error",
                                 ![w].pc = "page_close"]
    /\ UNCHANGED <<pc, frame, cop, resp, heap, global_cache, now, lastSet,
                   call>>

\* finally: await page.close(); an exception here leaves the finally block.
BroPageClose(w) ==
    /\ BroAt(w, "page_close")
    /\ \E ok \in BOOLEAN :
         bro' = IF ok
                THEN [bro EXCEPT ![w].page = "closed",
                                 ![w].closed = Append(@, "page"),
                                 ![w].pc = "browser_close"]
                ELSE [BroFail(w, "Error") EXCEPT ![w].html = <<>>]
    /\ UNCHANGED <<pc, frame, cop, resp, heap, global_cache, now, lastSet,
                   call>>

\* finally: await browser.close()
BroBrowserClose(w) ==
    /\ BroAt(w, "browser_close")
    /\ \E ok \in BOOLEAN :
         bro' = IF ok
                THEN [bro EXCEPT ![w].browser = "closed",
                                 ![w].closed = Append(@, "browser"),
                                 ![w].pc = "exit"]
                ELSE [BroFail(w, "Error") EXCEPT
                        ![w].browser = "close_failed", ![w].html = <<>>]
    /\ UNCHANGED <<pc, frame, cop, resp, heap, global_cache, now, lastSet,
                   call>>

\* The async with block is left (Playwright stops); except Exception as e:
\* raise FetchError(...) from e; or the HTML is returned.
BroExit(w) ==
    /\ BroAt(w, "exit")
    /\ bro' = [bro EXCEPT
                 ![w].pc = "done",
                 ![w].pw = IF bro[w].pw = "on" THEN "stopped" ELSE @,
                 ![w].exc = IF bro[w].pending # "" THEN "FetchError" ELSE "",
                 ![w].html = IF bro[w].pending # "" THEN <<>> ELSE @]
    /\ UNCHANGED <<pc, frame, cop, resp, heap, global_cache, now, lastSet,
                   call>>


-----------------------------------------------------------------------------
(* Callers of the cache and of the browser fetcher, the clock *)

\* The keys and values the callers of a SimpleCache use.
ApiKeys == {CacheKey(Args(url, <<TRUE, TRUE, TRUE>>, TRUE, LongestTtl,
                          "fetch", "chromium", FALSE, FALSE, 10, "None",
                          "None")) : url \in {GoodSmall, GoodBig}}
ApiValues == {Result(GoodSmall), Result(GoodBig)}

\* A thread calls op on the SimpleCache self.
ApiCall(w, op, self, key, value) ==
    /\ pc[w] = "idle"
    /\ self \in DOMAIN heap
    /\ cop' = [cop EXCEPT ![w] = CopCall(op, self, key, value, 0)]
    /\ pc' = [pc EXCEPT ![w] = "api"]
    /\ UNCHANGED <<frame, bro, resp, heap, global_cache, now, lastSet, call>>

\* The operation is back at its caller; the history notes a set and a clear,
\* and the frame keeps the time the operation ran at.
ApiReturn(w) ==
    /\ pc[w] = "api"
    /\ CopDone(w)
    /\ pc' = [pc EXCEPT ![w] = "api_done"]
    /\ cop' = [cop EXCEPT ![w].ts = now]
    /\ lastSet' =
         IF cop[w].op = "set"
         THEN [lastSet EXCEPT ![cop[w].key] =
                  <<[ts |-> now, value |-> cop[w].value[1]]>>]
         ELSE IF cop[w].op = "clear" THEN [k \in ApiKeys |-> <<>>]
         ELSE lastSet
    /\ UNCHANGED <<frame, bro, resp, heap, global_cache, now, call>>

\* A caller awaits fetch_html_playwright itself.
BrowserCall(w, url, browser_type, use_user_profile) ==
    /\ pc[w] = "idle"
    /\ bro' = [bro EXCEPT ![w] = BroCall(url, browser_type, use_user_profile)]
    /\ pc' = [pc EXCEPT ![w] = "br"]
    /\ UNCHANGED <<frame, cop, resp, heap, global_cache, now, lastSet, call>>

BrowserReturn(w) ==
    /\ pc[w] = "br"
    /\ BroDone(w)
    /\ pc' = [pc EXCEPT ![w] = "br_done"]
    /\ UNCHANGED <<frame, cop, bro, resp, heap, global_cache, now, lastSet,
                   call>>

\* The worker's call is over: call_tool answered, html_to_markdown returned
\* to its caller, or the cache or browser call returned.
Terminal(w) ==
    \/ pc[w] \in {"ct_done", "api_done", "br_done"}
    \/ pc[w] = "h2m_exit" /\ frame[w].entry = "direct"

\* The worker takes the next request.
Reset(w) ==
    /\ Terminal(w)
    /\ pc' = [pc EXCEPT ![w] = "idle"]
    /\ frame' = [frame EXCEPT ![w] = NoFrame]
    /\ cop' = [cop EXCEPT ![w] = NoCop]
    /\ bro' = [bro EXCEPT ![w] = NoBro]
    /\ resp' = [resp EXCEPT ![w] = NoResp]
    /\ UNCHANGED <<heap, global_cache, now, lastSet, call>>

\* A tick of the clock.  A cache operation takes far less than a tick: the
\* clock stands while a worker is inside one.
Tick ==
    /\ now < MaxTime
    /\ \A w \in Workers : cop[w].op = "none" \/ pc[w] = "api_done"
    /\ now' = now + 1
    /\ UNCHANGED <<pc, frame, cop, bro, resp, heap, global_cache, lastSet,
                   call>>

-----------------------------------------------------------------------------
(* Functions called by themselves: the arguments are in call, the outcome  *)
(* joins them when the function has run.                                   *)

\* No function is called by itself.
NoCall == [f |-> "none", done |-> FALSE]

\* The state of the server, which a function called by itself leaves alone.
serverVars == <<pc, frame, cop, bro, resp, heap, global_cache, now, lastSet>>

-----------------------------------------------------------------------------
(* converter.py fetch_html, the response in hand: the size limit *)

\* Characters of a decoded chunk: one that UTF-8 encodes in one byte and one
\* it encodes in two.
OneByteChar == "a"
TwoByteChar == "e-acute"

\* The decoded chunks response.iter_content yields, as character sequences.
ChunkChoices ==
    {<<>>, <<OneByteChar>>, <<TwoByteChar>>, <<OneByteChar, TwoByteChar>>}

\* The chunk's size taken as its number of characters.
ChunkBytes_Chars(chunk) == Len(chunk)

\* len(chunk.encode("utf-8"))
RECURSIVE ChunkBytes(_)
ChunkBytes(chunk) ==
    IF chunk = <<>> THEN 0
    ELSE (IF Head(chunk) = TwoByteChar THEN 2 ELSE 1)
           + ChunkBytes(Tail(chunk))

\* for chunk in response.iter_content(...): an empty chunk is skipped, any
\* other is appended and counted; FetchError as soon as the total is above
\* max_size; "".join(content_chunks) at the end.  taken counts the chunks
\* the loop took from the response.
RECURSIVE ReadChunks(_, _, _, _, _)
ReadChunks(chunks, max_size, content_chunks, total_size, taken) ==
    IF chunks = <<>>
    THEN [exc |-> "", html |-> <<content_chunks>>, taken |-> taken]
    ELSE LET chunk == Head(chunks)
             total == total_size + ChunkBytes(chunk)
         IN IF chunk = <<>>
            THEN ReadChunks(Tail(chunks), max_size, content_chunks,
                            total_size, taken + 1)
            ELSE IF total > max_size
            THEN [exc |-> "FetchError", html |-> <<>>, taken |-> taken + 1]
            ELSE ReadChunks(Tail(chunks), max_size, content_chunks \o chunk,
                            total, taken + 1)

\* fetch_html from response.raise_for_status() on: an error status and a
\* Content-Length above max_size are FetchErrors before the body is read.
FetchResponse(response, max_size) ==
    IF ~response.status_ok
    THEN [exc |-> "FetchError", html |-> <<>>, taken |-> 0]
    ELSE IF response.content_length # <<>>
            /\ response.content_length[1] > max_size
    THEN [exc |-> "FetchError", html |-> <<>>, taken |-> 0]
    ELSE ReadChunks(response.chunks, max_size, <<>>, 0, 0)

\* The sequences of at most n elements of S.
SeqsUpTo(S, n) == UNION {[1..k -> S] : k \in 0..n}

\* The responses requests.get hands to fetch_html.
Responses ==
    [status_ok : BOOLEAN,
     content_length : {<<>>} \cup {<<n>> : n \in 0..(MaxSize + 1)},
     chunks : SeqsUpTo(ChunkChoices, MaxChunks)]

\* fetch_html runs on the response.
FetchApply ==
    /\ call.f = "fetch_html"
    /\ ~call.done
    /\ call' = [call EXCEPT
                  !.done = TRUE,
                  !.out = FetchResponse(call.response, call.max_size)]
    /\ UNCHANGED serverVars

-----------------------------------------------------------------------------
(* Python str, as a sequence of characters *)

Newline == "LF"
Space   == " "
Hash    == "#"

\* str.lower, of one character and of a string.
LowerChar(c) ==
    CASE c = "A" -> "a"
      [] c = "B" -> "b"
      [] c = "C" -> "c"
      [] OTHER   -> c

Lower(text) == [i \in DOMAIN text |-> LowerChar(text[i])]

\* str.strip: the text without its leading and trailing whitespace.
Strip(text) ==
    LET inked == {i \in DOMAIN text : text[i] \notin {Space, Newline}}
    IN IF inked = {} THEN <<>>
       ELSE SubSeq(text,
                   CHOOSE i \in inked : \A j \in inked : i <= j,
                   CHOOSE i \in inked : \A j \in inked : j <= i)

\* needle in hay
IsSubstring(needle, hay) ==
    \E i \in 1..(Len(hay) + 1) :
      /\ i + Len(needle) - 1 <= Len(hay)
      /\ SubSeq(hay, i, i + Len(needle) - 1) = needle

\* text.startswith("#")
StartsWithHash(text) == text # <<>> /\ Head(text) = Hash

\* text.split("\n"): always at least one piece.
RECURSIVE Split(_)
Split(text) ==
    IF \A i \in DOMAIN text : text[i] # Newline THEN <<text>>
    ELSE LET n == CHOOSE i \in DOMAIN text :
                    text[i] = Newline /\ \A j \in 1..(i - 1) : text[j] # Newline
         IN <<SubSeq(text, 1, n - 1)>> \o Split(SubSeq(text, n + 1, Len(text)))

\* "\n".join(lines)
RECURSIVE Join(_)
Join(lines) ==
    IF lines = <<>> THEN <<>>
    ELSE IF Len(lines) = 1 THEN lines[1]
    ELSE lines[1] \o <<Newline>> \o Join(Tail(lines))

-----------------------------------------------------------------------------
(* sections.py extract_section_from_markdown *)

\* A pattern that takes every line starting with "#" as a heading.
HeadingMatch_AnyHashLine(stripped) ==
    LET hashes == CHOOSE k \in 1..Len(stripped) :
                    /\ \A i \in 1..k : stripped[i] = Hash
                    /\ (k < Len(stripped) => stripped[k + 1] # Hash)
        rest == SubSeq(stripped, hashes + 1, Len(stripped))
    IN [matched |-> TRUE, level |-> hashes, text |-> Strip(rest)]

\* re.match(r"^(#+)\s+(.+)$", stripped), stripped starting with "#" and
\* having no whitespace at its ends: group 1 is the run of hashes, which
\* whitespace must follow; group 2 is what follows the whitespace.
HeadingMatch(stripped) ==
    LET hashes == CHOOSE k \in 1..Len(stripped) :
                    /\ \A i \in 1..k : stripped[i] = Hash
                    /\ (k < Len(stripped) => stripped[k + 1] # Hash)
        rest == SubSeq(stripped, hashes + 1, Len(stripped))
    IN IF rest # <<>> /\ Head(rest) = Space /\ Strip(rest) # <<>>
       THEN [matched |-> TRUE, level |-> hashes, text |-> Strip(rest)]
       ELSE [matched |-> FALSE, level |-> 0, text |-> <<>>]

\* The heading compared as it is written.
IsTarget_CaseSensitive(search_text, heading_text) ==
    IsSubstring(search_text, heading_text)

\* search_text in heading_text.lower()
IsTarget(search_text, heading_text) ==
    IsSubstring(search_text, Lower(heading_text))

\* The section ended by a shallower heading only.
EndsSection_Shallower(level, section_level) == level < section_level

\* level <= section_level
EndsSection(level, section_level) == level <= section_level

\* The loop over the lines: section_lines when the loop is left.
RECURSIVE ScanLines(_, _, _, _, _)
ScanLines(lines, search_text, in_section, section_level, section_lines) ==
    IF lines = <<>> THEN section_lines
    ELSE
      LET line == Head(lines)
          stripped == Strip(line)
          m == HeadingMatch(stripped)
          Skip == ScanLines(Tail(lines), search_text, in_section,
                            section_level, section_lines)
          Keep == ScanLines(Tail(lines), search_text, in_section,
                            section_level, Append(section_lines, line))
      IN IF StartsWithHash(stripped)
         THEN IF ~m.matched
              THEN (IF in_section THEN Keep ELSE Skip)
              ELSE IF ~in_section /\ IsTarget(search_text, m.text)
              THEN ScanLines(Tail(lines), search_text, TRUE, m.level,
                             Append(section_lines, line))
              ELSE IF in_section /\ EndsSection(m.level, section_level)
              THEN section_lines
              ELSE IF in_section THEN Keep
              ELSE Skip
         ELSE IF in_section THEN Keep
         ELSE Skip

\* extract_section_from_markdown(markdown, section_heading): the section, or
\* ValueError("Section not found: ...").
ExtractSectionFromMarkdown(markdown, section_heading) ==
    LET search_text == Strip(Lower(section_heading))
        section_lines == ScanLines(Split(markdown), search_text, FALSE, 0,
                                   <<>>)
    IN IF section_lines = <<>>
       THEN [exc |-> "ValueError", result |-> <<>>]
       ELSE [exc |-> "", result |-> Join(section_lines)]

\* Lines of Markdown: headings of three levels, one of them indented, two
\* lines that start with a hash and are no heading ("# " with nothing after
\* the space, "#x" with no space), a text line, an empty line.
LineChoices ==
    {<<Hash, Space, "A">>,
     <<Hash, Hash, Space, "b">>,
     <<Space, Hash, Hash, Space, "A", "B">>,
     <<Hash, Hash, Hash, Space, "B">>,
     <<Hash, Space>>,
     <<Hash, "x">>,
     <<"t">>,
     <<>>}

\* "# A", "text1", "## B", "text2", "# C", "text3"
ExampleLines ==
    <<<<Hash, Space, "A">>, <<"t", "1">>, <<Hash, Hash, Space, "B">>,
      <<"t", "2">>, <<Hash, Space, "C">>, <<"t", "3">>>>

\* The section_heading arguments: "B", " a" (to be trimmed), "Z", "".
TargetChoices == {<<"B">>, <<Space, "a">>, <<"Z">>, <<>>}

\* extract_section_from_markdown runs.
MarkdownApply ==
    /\ call.f = "extract_section_from_markdown"
    /\ ~call.done
    /\ call' = [call EXCEPT
                  !.done = TRUE,
                  !.out = ExtractSectionFromMarkdown(call.markdown,
                                                     call.section_heading)]
    /\ UNCHANGED serverVars

-----------------------------------------------------------------------------
(* sections.py extract_section_from_html.  The parsed document is the     *)
(* children of one parent, in document order, and the tags of the elements *)
(* that enclose them, the nearest first.                                   *)

\* A node of the tree: an element (its tag, id and name attributes, its
\* text) or, with the empty tag, a text node.
Node(tag, id, name_attr, text) ==
    [name |-> tag, id |-> id, name_attr |-> name_attr, text |-> text]

\* The characters of a tag name.
TagChars(tag) ==
    CASE tag = "h1" -> <<"h", "1">>
      [] tag = "h2" -> <<"h", "2">>
      [] tag = "h3" -> <<"h", "3">>
      [] tag = "hr" -> <<"h", "r">>
      [] tag = "header" -> <<"h", "e", "a", "d", "e", "r">>
      [] tag = "p" -> <<"p">>
      [] tag = "a" -> <<"a">>
      [] OTHER -> <<>>

\* element.name and element.name.startswith("h")
StartsWithH(tag) == TagChars(tag) # <<>> /\ TagChars(tag)[1] = "h"

\* int(element.name[1]): the digit's value, or <<>> where int raises
\* ValueError.
LevelDigit(tag) ==
    LET c == TagChars(tag)[2]
    IN IF c \in {"1", "2", "3", "4", "5", "6"}
       THEN <<CHOOSE k \in 1..6 : ToString(k) = c>>
       ELSE <<>>

\* section_id.lstrip("#")
RECURSIVE LStripHash(_)
LStripHash(text) ==
    IF text # <<>> /\ Head(text) = Hash THEN LStripHash(Tail(text)) ELSE text

\* soup.find(id=clean_id), else soup.find(attrs={"name": clean_id}): the
\* place of the first such node, 0 for None.
FindById(nodes, clean_id) ==
    LET byId == {i \in DOMAIN nodes :
                    nodes[i].name # "" /\ nodes[i].id = clean_id}
        byName == {i \in DOMAIN nodes :
                      nodes[i].name # "" /\ nodes[i].name_attr = clean_id}
    IN IF byId # {} THEN CHOOSE i \in byId : \A j \in byId : i <= j
       ELSE IF byName # {}
       THEN CHOOSE i \in byName : \A j \in byName : i <= j
       ELSE 0

\* for heading_tag in ["h1", ..., "h6"]: for heading in
\* soup.find_all(heading_tag): the first heading of the first level that
\* has one whose text contains the target; 0 for None.
FindByHeading(nodes, section_heading) ==
    LET Hits(k) == {i \in DOMAIN nodes :
                       /\ nodes[i].name = "h" \o ToString(k)
                       /\ IsSubstring(Lower(Strip(section_heading)),
                                      Lower(Strip(nodes[i].text)))}
        levels == {k \in 1..6 : Hits(k) # {}}
    IN IF levels = {} THEN 0
       ELSE LET k == CHOOSE l \in levels : \A m \in levels : l <= m
            IN CHOOSE i \in Hits(k) : \A j \in Hits(k) : i <= j

NoSection ==
    [exc |-> "", msg |-> "", target |-> 0, elements |-> <<>>, parent |-> 0]

\* while current: the next siblings from place i on.  A node with a name is
\* appended unless it is a heading of level <= current_level, which ends the
\* loop; int(current.name[1]) of a name that starts with "h" may raise; a
\* node without a name (a text node) is passed by.
RECURSIVE CollectSiblings(_, _, _, _, _)
CollectSiblings(nodes, i, current_level, target, section_elements) ==
    IF i > Len(nodes)
    THEN [NoSection EXCEPT !.target = target, !.elements = section_elements]
    ELSE LET current == nodes[i]
             Pass == CollectSiblings(nodes, i + 1, current_level, target,
                                     section_elements)
             Take == CollectSiblings(nodes, i + 1, current_level, target,
                                     Append(section_elements, i))
         IN IF current.name = "" THEN Pass
            ELSE IF ~StartsWithH(current.name) THEN Take
            ELSE IF LevelDigit(current.name) = <<>>
            THEN [NoSection EXCEPT !.exc = "ValueError",
                                   !.msg = "invalid literal for int()",
                                   !.target = target]
            ELSE IF LevelDigit(current.name)[1] <= current_level
            THEN [NoSection EXCEPT !.target = target,
                                   !.elements = section_elements]
            ELSE Take

\* target_element.find_parent(["section", "article", "div"]): the place of
\* the nearest such element among those enclosing the node, 0 for None.
FindParent(enclosing) ==
    LET hits == {k \in DOMAIN enclosing :
                    enclosing[k] \in {"section", "article", "div"}}
    IN IF hits = {} THEN 0 ELSE CHOOSE k \in hits : \A l \in hits : k <= l

\* extract_section_from_html(html, section_id, section_heading), the
\* arguments None (<<>>) or a text (<<text>>): the elements of the section,
\* as their places among the nodes, or the enclosing element that stands for
\* it.
ExtractSectionFromHtml(doc, section_id, section_heading) ==
    IF (section_id = <<>>) = (section_heading = <<>>)
    THEN [NoSection EXCEPT !.exc = "ValueError",
                           !.msg = "Must provide exactly one"]
    ELSE
      LET target == IF section_id # <<>>
                    THEN FindById(doc.nodes, LStripHash(section_id[1]))
                    ELSE FindByHeading(doc.nodes, section_heading[1])
      IN IF target = 0
         THEN [NoSection EXCEPT !.exc = "ValueError",
                                !.msg = "Section not found"]
         ELSE IF StartsWithH(doc.nodes[target].name)
         THEN IF LevelDigit(doc.nodes[target].name) = <<>>
              THEN [NoSection EXCEPT !.exc = "ValueError",
                                     !.msg = "invalid literal for int()",
                                     !.target = target]
              ELSE CollectSiblings(doc.nodes, target + 1,
                                   LevelDigit(doc.nodes[target].name)[1],
                                   target, <<target>>)
         ELSE IF FindParent(doc.enclosing) # 0
         THEN [NoSection EXCEPT !.target = target,
                                !.parent = FindParent(doc.enclosing)]
         ELSE [NoSection EXCEPT !.target = target, !.elements = <<target>>]

\* Nodes of a document: headings of three levels, a paragraph with an id, an
\* anchor with a name, a rule, a header with an id, a text node.
NodeChoices ==
    {Node("h1", <<>>, <<>>, <<"A">>),
     Node("h2", <<>>, <<>>, <<Space, "A">>),
     Node("h3", <<>>, <<>>, <<"B">>),
     Node("p", <<"x">>, <<>>, <<"t">>),
     Node("a", <<>>, <<"x">>, <<>>),
     Node("hr", <<>>, <<>>, <<>>),
     Node("header", <<"y">>, <<>>, <<"t">>),
     Node("", <<>>, <<>>, <<"t">>)}

\* The elements that enclose the nodes, the nearest first: the body alone,
\* or a span in a section in a div.
EnclosingChoices == {<<"body">>, <<"span", "section", "div", "body">>}

\* The selectors: a heading text, an id (with or without "#"), or neither.
SelectorChoices ==
    {[section_id |-> <<>>, section_heading |-> <<<<"a">>>>],
     [section_id |-> <<>>, section_heading |-> <<<<"B", Space>>>>],
     [section_id |-> <<<<"x">>>>, section_heading |-> <<>>],
     [section_id |-> <<<<Hash, "y">>>>, section_heading |-> <<>>],
     [section_id |-> <<>>, section_heading |-> <<>>]}

\* extract_section_from_html runs.
HtmlApply ==
    /\ call.f = "extract_section_from_html"
    /\ ~call.done
    /\ call' = [call EXCEPT
                  !.done = TRUE,
                  !.out = ExtractSectionFromHtml(call.doc, call.section_id,
                                                 call.section_heading)]
    /\ UNCHANGED serverVars

-----------------------------------------------------------------------------
(* sections.py extract_toc *)

\* The loop over the lines: a line whose stripped form starts with "#" is
\* appended, stripped; the loop is left when, after an append, headings has
\* max_headings entries or more.
RECURSIVE TocLines(_, _, _)
TocLines(lines, max_headings, headings) ==
    IF lines = <<>> THEN headings
    ELSE LET stripped == Strip(Head(lines))
         IN IF StartsWithHash(stripped)
            THEN IF Len(headings) + 1 >= max_headings
                 THEN Append(headings, stripped)
                 ELSE TocLines(Tail(lines), max_headings,
                               Append(headings, stripped))
            ELSE TocLines(Tail(lines), max_headings, headings)

\* extract_toc(markdown, max_headings)
ExtractToc(markdown, max_headings) ==
    TocLines(Split(markdown), max_headings, <<>>)

\* extract_toc runs.
TocApply ==
    /\ call.f = "extract_toc"
    /\ ~call.done
    /\ call' = [call EXCEPT
                  !.done = TRUE,
                  !.out = ExtractToc(call.markdown, call.max_headings)]
    /\ UNCHANGED serverVars

-----------------------------------------------------------------------------
(* Specifications *)

GetCacheSteps(w) ==
    GetCacheCheck(w) \/ GetCacheCreate(w) \/ GetCacheReturn(w)

GetSteps(w) == GetContains(w) \/ GetRead(w) \/ GetAge(w) \/ GetDel(w)

CleanupSteps(w) == CleanupBegin(w) \/ CleanupScan(w) \/ CleanupDel(w)

BroSteps(w) ==
    \/ BroStart(w) \/ BroLaunch(w) \/ BroNewContext(w) \/ BroNewPage(w)
    \/ BroGoto(w) \/ BroContent(w) \/ BroPageClose(w) \/ BroBrowserClose(w)
    \/ BroExit(w)

InitWorkers ==
    /\ pc = [w \in Workers |-> "idle"]
    /\ frame = [w \in Workers |-> NoFrame]
    /\ cop = [w \in Workers |-> NoCop]
    /\ bro = [w \in Workers |-> NoBro]
    /\ resp = [w \in Workers |-> NoResp]
    /\ now = 0
    /\ lastSet = [k \in ApiKeys |-> <<>>]


\* The server process after start: no cache yet; one request at a time, to
\* the endpoint or to html_to_markdown itself.
Init ==
    /\ InitWorkers
    /\ heap = <<>>
    /\ global_cache = 0
    /\ call = NoCall

Next ==
    \/ \E w \in MainThread :
         \/ \E name \in {"html_to_markdown", "other_tool"},
               args \in EndpointArgs : CallTool(w, name, args)
         \/ CallToolResume(w)
         \/ \E args \in DirectArgs : Direct(w, args)
         \/ H2mEnter(w) \/ H2mLookup(w) \/ H2mCached(w) \/ H2mFetch(w)
         \/ H2mPwDone(w) \/ H2mClean(w) \/ H2mConvert(w) \/ H2mStored(w)
         \/ GetCacheSteps(w) \/ GetSteps(w) \/ SetStore(w)
         \/ BroSteps(w)
         \/ Reset(w)
    \/ Tick

Spec == Init /\ [][Next]_vars

\* One SimpleCache, just constructed, and one thread calling its methods.
InitCache ==
    /\ InitWorkers
    /\ \E ttl \in Ttls : heap = <<NewCache(ttl)>>
    /\ global_cache = 0
    /\ call = NoCall

NextCache ==
    \/ \E w \in MainThread :
         \/ \E key \in ApiKeys : ApiCall(w, "get", 1, key, <<>>)
         \/ \E key \in ApiKeys, value \in ApiValues :
               ApiCall(w, "set", 1, key, <<value>>)
         \/ ApiCall(w, "cleanup", 1, <<>>, <<>>)
         \/ ApiCall(w, "clear", 1, <<>>, <<>>)
         \/ GetSteps(w) \/ SetStore(w) \/ ClearAll(w) \/ CleanupSteps(w)
         \/ ApiReturn(w)
         \/ Reset(w)
    \/ Tick

SpecCache == InitCache /\ [][NextCache]_vars

\* The executor's workers run html_to_markdown concurrently against the
\* process-wide cache, and call its cleanup.
NextThreads ==
    \/ \E w \in Workers :
         \/ \E args \in ThreadArgs : Direct(w, args)
         \/ H2mEnter(w) \/ H2mLookup(w) \/ H2mCached(w) \/ H2mFetch(w)
         \/ H2mClean(w) \/ H2mConvert(w) \/ H2mStored(w)
         \/ GetCacheSteps(w) \/ GetSteps(w) \/ SetStore(w)
         \/ ApiCall(w, "cleanup", global_cache, <<>>, <<>>)
         \/ CleanupSteps(w)
         \/ ApiReturn(w)
         \/ Reset(w)
    \/ Tick

SpecThreads == Init /\ [][NextThreads]_vars

\* One caller of fetch_html_playwright.
NextBrowser ==
    \E w \in MainThread :
      \/ \E url \in {GoodSmall, Unreachable, NoHost, Hostless},
            bt \in {"chromium", "firefox", "webkit"}, up \in BOOLEAN :
            BrowserCall(w, url, bt, up)
      \/ BroSteps(w)
      \/ BrowserReturn(w)
      \/ Reset(w)

SpecBrowser == Init /\ [][NextBrowser]_vars

\* One call of fetch_html, on any response.
InitFetch ==
    /\ InitWorkers
    /\ heap = <<>>
    /\ global_cache = 0
    /\ \E response \in Responses, max_size \in 0..MaxSize :
         call = [f |-> "fetch_html", done |-> FALSE, response |-> response,
                 max_size |-> max_size,
                 out |-> [exc |-> "", html |-> <<>>, taken |-> 0]]

NextFetch == FetchApply

\* One caller of html_to_markdown with the cache, by either fetch method.
NextShare ==
    \/ \E w \in MainThread :
         \/ \E args \in ShareArgs : Direct(w, args)
         \/ H2mEnter(w) \/ H2mLookup(w) \/ H2mCached(w) \/ H2mFetch(w)
         \/ H2mPwDone(w) \/ H2mClean(w) \/ H2mConvert(w) \/ H2mStored(w)
         \/ GetCacheSteps(w) \/ GetSteps(w) \/ SetStore(w)
         \/ BroSteps(w)
         \/ Reset(w)
    \/ Tick

SpecShare == Init /\ [][NextShare]_vars

SpecFetch == InitFetch /\ [][NextFetch]_vars

\* One call of extract_section_from_markdown, on any document.
InitMarkdown ==
    /\ InitWorkers
    /\ heap = <<>>
    /\ global_cache = 0
    /\ \E lines \in SeqsUpTo(LineChoices, MaxLines) \cup {ExampleLines},
          section_heading \in TargetChoices :
         call = [f |-> "extract_section_from_markdown", done |-> FALSE,
                 markdown |-> Join(lines),
                 section_heading |-> section_heading,
                 out |-> [exc |-> "", result |-> <<>>]]

NextMarkdown == MarkdownApply

SpecMarkdown == InitMarkdown /\ [][NextMarkdown]_vars

\* One call of extract_section_from_html, on any document.
InitHtml ==
    /\ InitWorkers
    /\ heap = <<>>
    /\ global_cache = 0
    /\ \E nodes \in SeqsUpTo(NodeChoices, MaxNodes),
          enclosing \in EnclosingChoices, sel \in SelectorChoices :
         call = [f |-> "extract_section_from_html", done |-> FALSE,
                 doc |-> [nodes |-> nodes, enclosing |-> enclosing],
                 section_id |-> sel.section_id,
                 section_heading |-> sel.section_heading,
                 out |-> NoSection]

NextHtml == HtmlApply

SpecHtml == InitHtml /\ [][NextHtml]_vars

\* One call of extract_toc, on any document.
InitToc ==
    /\ InitWorkers
    /\ heap = <<>>
    /\ global_cache = 0
    /\ \E lines \in SeqsUpTo(LineChoices, MaxLines),
          max_headings \in 0..MaxHeadings :
         call = [f |-> "extract_toc", done |-> FALSE,
                 markdown |-> Join(lines), max_headings |-> max_headings,
                 out |-> <<>>]

NextToc == TocApply

SpecToc == InitToc /\ [][NextToc]_vars


-----------------------------------------------------------------------------
(* Properties of the endpoint, under Spec *)

\* The page behind url can be fetched, cleaned and converted.
PageConverts(url) ==
    ValidateUrl(url) /\ Site(url).answers /\ Site(url).md_len > 0

\* Worker w's call_tool call of the html_to_markdown tool has answered.
Answered(w) ==
    /\ pc[w] = "ct_done"
    /\ frame[w].entry = "call_tool"
    /\ frame[w].name = "html_to_markdown"

NoStepFailed(w) == frame[w].exc \notin {"FetchError", "ParseError"}

\* C1: a call_tool call of html_to_markdown with a non-empty url and no
\* section selector, whose page fetches, cleans and converts to Markdown
\* within the token budget, answers with the "Conversion Successful" report
\* of that URL and its full Markdown, not with an error message.
C1_SuccessReport ==
    \A w \in Workers :
      LET a == frame[w].args IN
      ( /\ Answered(w)
        /\ Truthy(a.url)
        /\ ~Truthy(a.section_id) /\ ~Truthy(a.section_heading)
        /\ ~a.return_summary
        /\ PageConverts(a.url)
        /\ EstimateTokens(Site(a.url).md_len) <= a.max_tokens
        /\ NoStepFailed(w) )
      => /\ resp[w].kind = "success"
         /\ resp[w].text = "# Conversion Successful"
         /\ resp[w].url = a.url
         /\ resp[w].markdown = Site(a.url).md

\* C2: a request whose Markdown is estimated above max_tokens, or that sets
\* return_summary, is answered with the summary report, with a non-empty
\* saved_to path and at most 50 table-of-contents entries, never with the
\* full Markdown.
C2_SummaryWhenTooLarge ==
    \A w \in Workers :
      LET a == frame[w].args IN
      ( /\ Answered(w)
        /\ Validate(a) = ""
        /\ PageConverts(a.url)
        /\ (a.return_summary
              \/ EstimateTokens(Site(a.url).md_len) > a.max_tokens)
        /\ NoStepFailed(w) )
      => /\ resp[w].kind = "summary"
         /\ resp[w].saved_to # ""
         /\ resp[w].toc_shown <= 50
         /\ resp[w].markdown = ""

\* C3: a request that names a section the page has, by section_id or by
\* section_heading, is answered with a "Conversion Successful" report that
\* carries the "Section extracted" label and only that section, not the
\* whole document.
C3_SectionOnly ==
    \A w \in Workers :
      LET a == frame[w].args IN
      ( /\ Answered(w)
        /\ Validate(a) = ""
        /\ PageConverts(a.url)
        /\ \/ Truthy(a.section_id) /\ a.section_id \in Site(a.url).anchors
           \/ Truthy(a.section_heading)
                /\ a.section_heading \in Site(a.url).headings
        /\ NoStepFailed(w) )
      => /\ resp[w].kind = "success"
         /\ resp[w].section =
              (IF Truthy(a.section_id) THEN a.section_id
               ELSE a.section_heading)
         /\ resp[w].markdown # Site(a.url).md

\* The request has no usable url, or names a section both ways.
Misused(a) ==
    \/ ~Truthy(a.url)
    \/ Truthy(a.section_id) /\ Truthy(a.section_heading)

\* C4: a call of the html_to_markdown tool with both section_id and
\* section_heading set (non-empty), or with url missing or empty, is answered
\* with one usage-error text and never starts the pipeline: the call is never
\* dispatched to a worker, and it touches neither the cache nor the network
\* nor a browser.
C4_UsageErrorBeforePipeline ==
    \A w \in Workers :
      ( /\ frame[w].entry = "call_tool"
        /\ frame[w].name = "html_to_markdown"
        /\ Misused(frame[w].args) )
      => /\ pc[w] = "ct_done"
         /\ resp[w].kind = "usage_error"
         /\ resp[w].items = 1
         /\ resp[w].text =
              (IF ~Truthy(frame[w].args.url) THEN UrlRequired
               ELSE MutuallyExclusive)
         /\ frame[w].events = {}
         /\ frame[w].kwargs = {}
         /\ cop[w] = NoCop
         /\ bro[w] = NoBro

C4_Witness ==
    \E w \in Workers :
      /\ Answered(w)
      /\ Truthy(frame[w].args.url)
      /\ Truthy(frame[w].args.section_id)
      /\ Truthy(frame[w].args.section_heading)
      /\ resp[w].text = MutuallyExclusive

\* The prefix the error class fixes.
PrefixOfClass(exc) ==
    CASE exc = "FetchError" -> "Error fetching URL: "
      [] exc = "ParseError" -> "Error parsing/converting content: "
      [] exc = "ConversionError" -> "Conversion error: "
      [] OTHER -> "Unexpected error: "

\* C5: once the tool name is accepted call_tool never raises; a failure of
\* the pipeline is answered with exactly one text item, whose prefix the
\* error class fixes, and which is the whole response.
C5_FailuresAsText ==
    \A w \in Workers :
      ( frame[w].entry = "call_tool" /\ frame[w].name = "html_to_markdown" )
      => /\ resp[w].kind # "raised"
         /\ (pc[w] = "ct_done" /\ frame[w].exc # "")
              => /\ resp[w].kind = "error"
                 /\ resp[w].items = 1
                 /\ resp[w].text = PrefixOfClass(frame[w].exc)
                 /\ resp[w].markdown = ""
                 /\ resp[w].saved_to = ""

C5_Witness ==
    \E w \in Workers :
      /\ Answered(w)
      /\ frame[w].exc # ""
      /\ "dispatch" \in frame[w].events
      /\ resp[w].kind = "error"

\* C7: cache_ttl is per call: a request with use_cache and cache_ttl = T is
\* answered from the cache only when the stored entry is at most T old,
\* whatever cache_ttl earlier requests used.
C7_TtlPerCall ==
    \A w \in Workers :
      frame[w].hit => frame[w].hit_age <= frame[w].args.cache_ttl

\* Worker w's html_to_markdown call, made by a caller of the package, is
\* past its fetch step without having been answered from the cache.
PastFetch(w) ==
    /\ frame[w].entry = "direct"
    /\ ~frame[w].hit
    /\ pc[w] \in {"h2m_clean", "h2m_convert", "h2m_set", "h2m_exit"}

\* C11: for a URL that lacks a scheme or a host, the fetch step fails with
\* FetchError, delivers no HTML and makes no request, with the plain HTTP
\* method and with the browser method alike.
C11_InvalidUrlNeverFetched ==
    \A w \in Workers :
      (PastFetch(w) /\ ~ValidateUrl(frame[w].args.url))
        => /\ frame[w].exc = "FetchError"
           /\ frame[w].html = <<>>
           /\ "fetch" \notin frame[w].events

\* Worker w's html_to_markdown call, made by a caller of the package, has
\* failed in its fetch or in its conversion.
Failed(w) ==
    /\ frame[w].entry = "direct"
    /\ pc[w] = "h2m_exit"
    /\ frame[w].exc \in {"FetchError", "ParseError"}

\* Every value in a cache is the whole result of a page that converts, and
\* what a request is served from the cache is such a result.
OnlyWholeResultsCached ==
    /\ \A c \in DOMAIN heap : \A i \in DOMAIN heap[c].cache :
         LET v == heap[c].cache[i].value
         IN PageConverts(v.url) /\ v = Result(v.url) /\ v.markdown_size > 0
    /\ \A w \in Workers :
         frame[w].hit => /\ frame[w].exc = ""
                         /\ frame[w].result[1].markdown_size > 0

\* A request without use_cache has called nothing of the cache.
UncachedLeavesCacheAlone ==
    \A w \in Workers :
      (frame[w].entry = "direct" /\ ~frame[w].args.use_cache)
        => /\ frame[w].events
                \cap {"get_cache", "cache_get", "cache_set", "evict"} = {}
           /\ cop[w] = NoCop
           /\ frame[w].cache = 0
           /\ ~frame[w].hit

\* C20, as stated: the cache is written only after fetch, clean and extract
\* succeeded; a request that fails with FetchError or ParseError leaves the
\* store as it found it; nothing but whole results is served from the cache;
\* a request with use_cache = false neither reads nor writes the cache.
C20_FailureLeavesStoreUnchanged ==
    /\ \A w \in Workers :
         Failed(w) => frame[w].events \cap {"cache_set", "evict"} = {}
    /\ OnlyWholeResultsCached
    /\ UncachedLeavesCacheAlone

\* C20, amended: a request that fails with FetchError or ParseError stores
\* nothing (its lookup may have evicted the expired entry of its own key);
\* a store is made only by a request whose fetch and conversion succeeded;
\* nothing but whole results is served from the cache; a request with
\* use_cache = false neither reads nor writes the cache.
C20_FailureStoresNothing ==
    /\ \A w \in Workers :
         /\ Failed(w) => "cache_set" \notin frame[w].events
         /\ "cache_set" \in frame[w].events
              => /\ frame[w].exc = ""
                 /\ frame[w].html # <<>>
                 /\ frame[w].cleaned # <<>>
                 /\ frame[w].result = <<Result(frame[w].args.url)>>
         /\ (pc[w] \in {"h2m_set", "h2m_exit"} /\ "evict" \in frame[w].events
                /\ frame[w].exc = "")
              => "cache_set" \in frame[w].events
    /\ OnlyWholeResultsCached
    /\ UncachedLeavesCacheAlone

\* A request with use_cache failed after its lookup evicted an expired entry,
\* other entries being in the store.
C20_Witness ==
    \E w \in Workers :
      /\ Failed(w)
      /\ frame[w].args.use_cache
      /\ "evict" \in frame[w].events
      /\ heap[frame[w].cache].cache # <<>>

-----------------------------------------------------------------------------
(* Properties of SimpleCache, under SpecCache *)

\* C6: get(k) returns the value of the most recent set(k, v) exactly when
\* that set is at most ttl old and no clear came since; otherwise it returns
\* None and k is not in the store afterwards.  A hit leaves the entry's
\* timestamp as the set wrote it; a set writes the current time.
C6_GetIsLastFreshSet ==
    \A w \in Workers :
      pc[w] = "api_done" =>
        LET c == cop[w]
            store == heap[c.self].cache
            ls == lastSet[c.key]
            fresh == ls # <<>> /\ c.ts - ls[1].ts <= heap[c.self].ttl
        IN /\ c.op = "get" /\ fresh =>
                /\ c.exc = ""
                /\ c.ret = <<ls[1].value>>
                /\ Contains(store, c.key)
                /\ Entry(store, c.key).ts = ls[1].ts
                /\ Entry(store, c.key).value = ls[1].value
           /\ c.op = "get" /\ ~fresh =>
                /\ c.exc = ""
                /\ c.ret = <<>>
                /\ ~Contains(store, c.key)
           /\ c.op = "set" =>
                /\ Contains(store, c.key)
                /\ Entry(store, c.key).ts = c.ts
                /\ Entry(store, c.key).value = c.value[1]

\* A hit on an entry exactly ttl old, which the hit did not renew.
C6_Witness ==
    \E w \in Workers :
      /\ pc[w] = "api_done"
      /\ cop[w].op = "get"
      /\ cop[w].ret # <<>>
      /\ lastSet[cop[w].key] # <<>>
      /\ cop[w].ts - lastSet[cop[w].key][1].ts = heap[cop[w].self].ttl

\* C19: cleanup() removes exactly the entries older than ttl and returns
\* how many it removed, the size before less the size after; every entry no
\* older than ttl stays with the value and the timestamp its set wrote, and
\* no entry older than ttl is left.
C19_CleanupRemovesExactlyExpired ==
    \A w \in Workers :
      (pc[w] = "api_done" /\ cop[w].op = "cleanup") =>
        LET c == cop[w]
            store == heap[c.self].cache
            Old(k) == c.ts - lastSet[k][1].ts > heap[c.self].ttl
        IN /\ c.exc = ""
           /\ c.used = Cardinality(c.seen)
           /\ \A k \in c.seen : lastSet[k] # <<>>
           /\ \A k \in c.seen : Contains(store, k) <=> ~Old(k)
           /\ \A k \in c.seen :
                Contains(store, k) =>
                  /\ Entry(store, k).ts = lastSet[k][1].ts
                  /\ Entry(store, k).value = lastSet[k][1].value
           /\ \A i \in DOMAIN store :
                /\ store[i].key \in c.seen
                /\ c.ts - store[i].ts <= heap[c.self].ttl
           /\ c.retn = Cardinality({k \in c.seen : Old(k)})
           /\ c.retn = c.used - Len(store)

\* A cleanup that removed an entry and left another.
C19_Witness ==
    \E w \in Workers :
      /\ pc[w] = "api_done"
      /\ cop[w].op = "cleanup"
      /\ cop[w].retn = 1
      /\ Len(heap[cop[w].self].cache) = 1

-----------------------------------------------------------------------------
(* Properties of the shared cache, under SpecThreads *)

\* C8: with workers running the pipeline and cleanup concurrently, no cache
\* operation fails because of what another worker did: the worst effect of a
\* race is a duplicate fetch.
C8_NoCacheOperationFails ==
    \A w \in Workers :
      /\ cop[w].exc = ""
      /\ frame[w].exc \notin {"KeyError", "RuntimeError"}

\* C9: get_cache hands the same SimpleCache to every caller, also when the
\* first calls are concurrent.
C9_OneSharedInstance ==
    /\ Len(heap) <= 1
    /\ \A v, w \in Workers :
         (frame[v].cache # 0 /\ frame[w].cache # 0)
           => frame[v].cache = frame[w].cache

-----------------------------------------------------------------------------
(* Properties of the browser fetcher, under SpecBrowser *)

\* C10: fetch_html_playwright has called close() on a browser or persistent
\* context it launched by the time it returns or raises, on every exit path,
\* and has closed the page, when one was opened, before the browser.
C10_BrowserClosedOnEveryExit ==
    \A w \in Workers :
      (bro[w].pc = "done" /\ bro[w].browser # "none")
        => /\ bro[w].browser \in {"closed", "close_failed"}
           /\ bro[w].page = "open" => bro[w].closed = <<>>
           /\ bro[w].closed \in {<<>>, <<"page">>, <<"page", "browser">>}

\* The launch step of a call that asks for the profile has run.
AtLaunch(w) == bro[w].machine # <<>>

\* The machine of the call has a local Chrome profile directory.
DirectoryPresent(w) == bro[w].machine[1]

\* C21: in fetch_html_playwright a persistent-profile session is launched
\* only when use_user_profile is set, the engine is chromium and the local
\* profile directory exists; with use_user_profile, chromium and no such
\* directory the call fails with FetchError and no browser is launched; with
\* use_user_profile and firefox or webkit the launch is the ephemeral one
\* (no profile is looked up, the only failure is one of Playwright) and the
\* call can return the page.
C21_ProfileSession ==
    \A w \in Workers :
      /\ bro[w].persistent
           => /\ bro[w].use_user_profile
              /\ bro[w].browser_type = "chromium"
              /\ AtLaunch(w) /\ DirectoryPresent(w)
      /\ (AtLaunch(w) /\ bro[w].use_user_profile
             /\ bro[w].browser_type = "chromium" /\ ~DirectoryPresent(w))
           => /\ bro[w].browser = "none"
              /\ ~bro[w].persistent
              /\ bro[w].pending = "FetchError"
              /\ bro[w].pc \in {"exit", "done"}
              /\ bro[w].pc = "done" => bro[w].exc = "FetchError"
      /\ (AtLaunch(w) /\ bro[w].use_user_profile
             /\ bro[w].browser_type \in {"firefox", "webkit"})
           => /\ ~bro[w].persistent
              /\ bro[w].profile_dir = "unset"
              /\ bro[w].pending # "FetchError"
              /\ \/ bro[w].browser # "none"
                 \/ bro[w].pending = "Error" /\ bro[w].pc \in {"exit", "done"}

\* A call asking for the profile with chromium, on a machine without the
\* directory, has raised.
C21_WitnessAbsent ==
    \E w \in Workers :
      /\ bro[w].pc = "done" /\ AtLaunch(w)
      /\ bro[w].use_user_profile /\ bro[w].browser_type = "chromium"
      /\ ~DirectoryPresent(w)
      /\ bro[w].exc = "FetchError"

-----------------------------------------------------------------------------
(* Properties of the cache fingerprint, under SpecShare *)

\* Requests whose URLs and toggles put the separator of the key to the test.
KeyProbes ==
    {Args(url, tg, TRUE, LongestTtl, "fetch", "chromium", FALSE, FALSE, 10,
          "None", "None") :
        url \in {GoodSmall, GoodBig, GoodSmall \o "|True",
                 GoodSmall \o "|True|True"},
        tg \in BOOLEAN \X BOOLEAN \X BOOLEAN}

SameContent(a, b) ==
    /\ a.url = b.url
    /\ a.include_images = b.include_images
    /\ a.include_tables = b.include_tables
    /\ a.include_links = b.include_links

\* C18: with use_cache, requests share a cache entry exactly when they agree
\* on url and on the three content toggles, whatever their fetch method: a
\* request that finds the entry of an earlier one no older than its
\* cache_ttl returns that result without a fetch and without a browser, and
\* an entry is never served for another url or toggle setting.
C18_SharedByUrlAndToggles ==
    \A w \in Workers :
      /\ (pc[w] = "h2m_get" /\ cop[w].read # <<>>)
           => /\ \A a \in KeyProbes :
                   (CacheKey(a) = cop[w].read[1].key)
                     <=> SameContent(a, frame[w].args)
              /\ cop[w].read[1].value = Result(frame[w].args.url)
      /\ (pc[w] = "h2m_get" /\ CopAt(w, "get", "del"))
           => cop[w].ts - cop[w].read[1].ts > frame[w].args.cache_ttl
      /\ frame[w].hit
           => /\ frame[w].result = <<Result(frame[w].args.url)>>
              /\ frame[w].html = <<>>
              /\ frame[w].events \cap {"fetch", "launch"} = {}

-----------------------------------------------------------------------------
(* Properties of fetch_html, under SpecFetch *)

\* The UTF-8 bytes of a text: one for each character and one more for each
\* two-byte character.
Utf8Bytes(text) ==
    Len(text) + Cardinality({i \in DOMAIN text : text[i] = TwoByteChar})

\* The bytes of the first k chunks of the body.
BytesUpTo(chunks, k) ==
    LET RECURSIVE Sum(_)
        Sum(i) == IF i = 0 THEN 0 ELSE Utf8Bytes(chunks[i]) + Sum(i - 1)
    IN Sum(k)

\* The characters of the first k chunks of the body, in arrival order.
CharsUpTo(chunks, k) ==
    LET RECURSIVE Cat(_)
        Cat(i) == IF i = 0 THEN <<>> ELSE Cat(i - 1) \o chunks[i]
    IN Cat(k)

\* C12: fetch_html never returns content of more than max_size UTF-8 bytes.
\* A Content-Length above max_size is a FetchError with no chunk read; the
\* first chunk that takes the running total above max_size is a FetchError
\* with nothing returned and no later chunk read; a body of at most max_size
\* bytes is returned whole, its chunks in arrival order.
C12_SizeLimit ==
    (call.f = "fetch_html" /\ call.done /\ call.response.status_ok) =>
      LET r == call.response
          n == Len(r.chunks)
          over == {k \in 1..n : BytesUpTo(r.chunks, k) > call.max_size}
          announced == r.content_length # <<>>
                         /\ r.content_length[1] > call.max_size
      IN /\ call.out.exc = ""
              => Utf8Bytes(call.out.html[1]) <= call.max_size
         /\ announced
              => call.out = [exc |-> "FetchError", html |-> <<>>, taken |-> 0]
         /\ (~announced /\ over # {})
              => /\ call.out.exc = "FetchError"
                 /\ call.out.html = <<>>
                 /\ \A k \in over : call.out.taken <= k
                 /\ call.out.taken \in over
         /\ (~announced /\ over = {})
              => /\ call.out.exc = ""
                 /\ call.out.html = <<CharsUpTo(r.chunks, n)>>
                 /\ call.out.taken = n

\* A body of exactly max_size bytes in fewer characters, returned whole.
C12_WitnessAtLimit ==
    /\ call.f = "fetch_html" /\ call.done
    /\ call.out.exc = ""
    /\ call.out.html # <<>>
    /\ Utf8Bytes(call.out.html[1]) = call.max_size
    /\ Len(call.out.html[1]) < call.max_size
    /\ Len(call.response.chunks) > 1

-----------------------------------------------------------------------------
(* Properties of extract_section_from_markdown, under SpecMarkdown *)

\* The source lines of the document of the call.
SourceLines == Split(call.markdown)

\* A heading line: hashes, whitespace, text, whatever surrounds them.
WellFormed(line) ==
    LET t == Strip(line)
    IN \E k \in 1..Len(t) :
         /\ \A i \in 1..k : t[i] = Hash
         /\ k + 2 <= Len(t)
         /\ t[k + 1] = Space
         /\ \E i \in (k + 2)..Len(t) : t[i] # Space

\* The level of a heading line: the number of its hashes.
LevelOf(line) ==
    LET t == Strip(line)
    IN Cardinality({k \in 1..Len(t) : \A i \in 1..k : t[i] = Hash})

\* The heading line's text contains the trimmed target, whatever the case of
\* either.
Names(line, target) ==
    LET t == Strip(line)
        text == SubSeq(t, LevelOf(line) + 1, Len(t))
    IN IsSubstring(Lower(Strip(target)), Lower(Strip(text)))

\* The lines among lines that are headings naming the target.
Naming(lines, target) ==
    {i \in DOMAIN lines : WellFormed(lines[i]) /\ Names(lines[i], target)}

\* The section of the heading at line i: up to the line before the next
\* heading of equal or shallower level, or to the end.
SectionAt(lines, i) ==
    LET ends == {j \in (i + 1)..Len(lines) :
                    /\ WellFormed(lines[j])
                    /\ LevelOf(lines[j]) <= LevelOf(lines[i])}
        last == IF ends = {} THEN Len(lines)
                ELSE (CHOOSE j \in ends : \A k \in ends : j <= k) - 1
    IN SubSeq(lines, i, last)

MarkdownDone == call.f = "extract_section_from_markdown" /\ call.done

\* C13: extract_section_from_markdown returns exactly the run of source
\* lines from the first heading line whose text contains the (trimmed)
\* target case-insensitively up to, not including, the next heading line of
\* equal or shallower level, or to the end of the input; for "# A", "text1",
\* "## B", "text2", "# C", "text3" and target "B" that is "## B", "text2".
C13_SectionIsFirstMatchToNextPeer ==
    MarkdownDone =>
      LET lines == SourceLines
          naming == Naming(lines, call.section_heading)
          first == CHOOSE i \in naming : \A j \in naming : i <= j
      IN naming # {} =>
         /\ call.out.exc = ""
         /\ call.out.result = Join(SectionAt(lines, first))
         /\ (call.markdown = Join(ExampleLines)
               /\ call.section_heading = <<"B">>)
              => call.out.result =
                   Join(<<<<Hash, Hash, Space, "B">>, <<"t", "2">>>>)

\* The example of the claim has run.
C13_WitnessExample ==
    /\ MarkdownDone
    /\ call.markdown = Join(ExampleLines)
    /\ call.section_heading = <<"B">>
    /\ call.out.result = Join(<<<<Hash, Hash, Space, "B">>, <<"t", "2">>>>)

\* C14: extract_section_from_markdown raises "Section not found" exactly
\* when no well-formed heading line of the input contains the (trimmed)
\* target case-insensitively; what it returns is never empty.
C14_NotFoundIffNoHeadingNames ==
    MarkdownDone =>
      /\ call.out.exc = "ValueError"
           <=> Naming(SourceLines, call.section_heading) = {}
      /\ call.out.exc \in {"", "ValueError"}
      /\ call.out.exc = "" => call.out.result # <<>>

\* Not found, in a document that has headings and hash lines that are none.
C14_WitnessNotFound ==
    /\ MarkdownDone
    /\ call.out.exc = "ValueError"
    /\ \E i \in DOMAIN SourceLines : WellFormed(SourceLines[i])
    /\ \E i \in DOMAIN SourceLines :
         StartsWithHash(SourceLines[i]) /\ ~WellFormed(SourceLines[i])

\* A line whose trimmed form starts with "#" and that is no heading line.
Malformed(line) ==
    /\ Strip(line) # <<>>
    /\ Head(Strip(line)) = Hash
    /\ ~WellFormed(line)

\* C22: in extract_section_from_markdown a line whose trimmed form starts
\* with "#" but is not hashes followed by whitespace and text never starts a
\* section and never ends one: the section starts at the first heading line
\* naming the target (with none it is not found) and runs to the next
\* heading line of equal or shallower level, and every such line in between
\* stands in the result as it is written, while those before it are
\* skipped.
C22_MalformedHashLines ==
    MarkdownDone =>
      LET lines == SourceLines
          bad == {i \in DOMAIN lines : Malformed(lines[i])}
          heads == {i \in DOMAIN lines \ bad :
                      WellFormed(lines[i])
                        /\ Names(lines[i], call.section_heading)}
          start == CHOOSE i \in heads : \A j \in heads : i <= j
          peers == {j \in (start + 1)..Len(lines) :
                      /\ j \notin bad
                      /\ WellFormed(lines[j])
                      /\ LevelOf(lines[j]) <= LevelOf(lines[start])}
          stop == IF peers = {} THEN Len(lines) + 1
                  ELSE CHOOSE j \in peers : \A k \in peers : j <= k
          out == Split(call.out.result)
      IN bad # {} =>
         /\ heads = {} => call.out.exc = "ValueError"
         /\ heads # {} =>
              /\ call.out.exc = ""
              /\ Len(out) = stop - start
              /\ out[1] = lines[start]
              /\ \A i \in bad :
                   (start < i /\ i < stop) => out[i - start + 1] = lines[i]

\* A section was returned that holds a malformed hash line with a line of
\* the section after it, from a document with another such line before the
\* section.
C22_WitnessInsideAndOutside ==
    /\ MarkdownDone
    /\ call.out.exc = ""
    /\ LET lines == SourceLines
           out == Split(call.out.result)
       IN \E i, j \in DOMAIN lines :
            /\ Malformed(lines[i]) /\ Malformed(lines[j])
            /\ i < j
            /\ \E k \in 2..(Len(out) - 1) :
                 /\ out[k] = lines[j]
                 /\ out[1] = lines[j - k + 1]
                 /\ i < j - k + 1

-----------------------------------------------------------------------------
(* Properties of extract_section_from_html, under SpecHtml *)

HtmlDone == call.f = "extract_section_from_html" /\ call.done

HeadingTags == {"h1", "h2", "h3", "h4", "h5", "h6"}

\* The level of a heading element.
HeadingLevel(tag) == CHOOSE k \in 1..6 : tag = "h" \o ToString(k)

\* The headings of the document whose text contains the target, whatever
\* the case.
NamingHeadings ==
    {i \in DOMAIN call.doc.nodes :
        /\ call.doc.nodes[i].name \in HeadingTags
        /\ IsSubstring(Lower(Strip(call.section_heading[1])),
                       Lower(Strip(call.doc.nodes[i].text)))}

\* C15: called with a heading, extract_section_from_html selects the first
\* heading element in document order, of whatever level h1 to h6, whose text
\* contains the target case-insensitively: no earlier heading of the
\* document names the target.
C15_FirstHeadingInDocumentOrder ==
    (HtmlDone /\ call.section_id = <<>> /\ call.section_heading # <<>>
       /\ NamingHeadings # {})
      => /\ call.out.target \in NamingHeadings
         /\ \A i \in NamingHeadings : call.out.target <= i

\* The section the claim describes for the heading at place i: the heading
\* and its following siblings of every kind, up to the next sibling heading
\* of equal or shallower level.
SiblingsOf(i) ==
    LET nodes == call.doc.nodes
        ends == {j \in (i + 1)..Len(nodes) :
                    /\ nodes[j].name \in HeadingTags
                    /\ HeadingLevel(nodes[j].name)
                          <= HeadingLevel(nodes[i].name)}
        last == IF ends = {} THEN Len(nodes)
                ELSE (CHOOSE j \in ends : \A k \in ends : j <= k) - 1
    IN [k \in 1..(last - i + 1) |-> i + k - 1]

\* C16: when the matched element is a heading h1..h6 the result is that
\* heading and all its following siblings, elements of any tag and text
\* nodes alike, up to but not including the next sibling heading of equal or
\* shallower level; when it is not a heading, whatever its tag, the result
\* is its nearest enclosing section, article or div, or the element itself
\* when it has none.
C16_SectionBoundary ==
    (HtmlDone /\ call.out.target # 0) =>
      LET t == call.out.target
          tag == call.doc.nodes[t].name
          container == {k \in DOMAIN call.doc.enclosing :
                           call.doc.enclosing[k] \in
                             {"section", "article", "div"}}
      IN /\ call.out.exc = ""
         /\ tag \in HeadingTags
              => call.out.parent = 0 /\ call.out.elements = SiblingsOf(t)
         /\ (tag \notin HeadingTags /\ container # {})
              => /\ call.out.parent \in container
                 /\ \A k \in container : call.out.parent <= k
         /\ (tag \notin HeadingTags /\ container = {})
              => call.out.parent = 0 /\ call.out.elements = <<t>>

-----------------------------------------------------------------------------
(* Properties of extract_toc, under SpecToc *)

\* The source lines whose trimmed form starts with "#", as they are written
\* and in source order.
HashLines ==
    SelectSeq(SourceLines, LAMBDA line : StartsWithHash(Strip(line)))

\* C17: extract_toc returns, in source order and each as it is written, the
\* first min(n, max_headings) of the n lines whose trimmed form starts with
\* "#"; it never returns more than max_headings entries, for max_headings
\* from 0 on.
C17_TocIsFirstHashLines ==
    (call.f = "extract_toc" /\ call.done) =>
      LET n == Len(HashLines)
          m == IF n <= call.max_headings THEN n ELSE call.max_headings
      IN /\ call.out = SubSeq(HashLines, 1, m)
         /\ Len(call.out) <= call.max_headings

====
